---- MODULE Spec2Model ----
(***************************************************************************)
(* Scope Resource Names (lightrag/scope/srn.py), scope contexts and the    *)
(* scope resolver (lightrag/scope/context.py) and the workspace-to-scope   *)
(* migration tool (lightrag/scope/migration.py).                           *)
(*                                                                         *)
(* A Python str is a sequence of one-character strings; a code point       *)
(* outside ASCII is written "U+XXXX".  None is the value None below.       *)
(* Three specifications share the module: SpecSRN drives the parser,       *)
(* SpecScope the scope operations, Spec the migration tool.                *)
(***************************************************************************)
EXTENDS Integers, Sequences, FiniteSets, Bags, TLC

VARIABLES
    \* SRNParser: the input string and what parse / to_string / parse return
    raw, parsed, restr, reparsed, srnpc,
    \* SRNParser.canonicalize: what it returns for raw, and for that result
    canon, recanon,
    \* ScopeResolver: the input list of scopes and the results of the operations
    scopes, isPar, isChild, commonParent, merged, scpc,
    \* ScopeResolver.create_scope_from_workspace: its arguments and what it returns
    cargs, created,
    \* what to_filter_dict, get_parent_scope and resolve_inheritance return for scopes[1]
    filterDict, parentScope, inheritance,
    \* ScopeResolver.find_matching_scopes: its pattern and what it returns for scopes
    pattern, matching,
    \* ScopeMigrationTool: file system, _migration_status, coroutines, returns
    fs, mig, hist, co, result, ret, log, clock,
    \* ScopeAwareLightRAG: _current_scope, the scope applied to the storages,
    \* the calls of aquery / ainsert made so far, the scope set before them
    current_scope, storage_scope, calls, scope_before

srnVars == <<raw, parsed, restr, reparsed, srnpc, canon, recanon>>
scopeVars == <<scopes, isPar, isChild, commonParent, merged, scpc, cargs, created,
               filterDict, parentScope, inheritance, pattern, matching>>
migVars == <<fs, mig, hist, co, result, ret, log, clock>>
ragVars == <<current_scope, storage_scope, calls, scope_before>>
vars == <<raw, parsed, restr, reparsed, srnpc, canon, recanon,
          scopes, isPar, isChild, commonParent, merged, scpc, cargs, created,
          filterDict, parentScope, inheritance, pattern, matching,
          fs, mig, hist, co, result, ret, log, clock,
          current_scope, storage_scope, calls, scope_before>>

(***************************************************************************)
(* Strings                                                                 *)
(***************************************************************************)
None == <<"<None>">>

\* Python truthiness of an Optional[str]: None and "" are false
Truthy(x) == x # None /\ x # <<>>

RECURSIVE Rep(_, _)
Rep(s, n) == IF n = 0 THEN <<>> ELSE s \o Rep(s, n - 1)

RECURSIVE Concat(_)
Concat(ss) == IF ss = <<>> THEN <<>> ELSE Head(ss) \o Concat(Tail(ss))

Dot == <<".">>

RECURSIVE JoinDots(_)
JoinDots(segs) ==
    IF segs = <<>> THEN <<>>
    ELSE IF Len(segs) = 1 THEN segs[1]
    ELSE segs[1] \o Dot \o JoinDots(Tail(segs))

StartsWith(s, p) == Len(s) >= Len(p) /\ SubSeq(s, 1, Len(p)) = p

AllIn(s, chars) == \A i \in 1..Len(s) : s[i] \in chars

Digits == {"0", "1", "2", "3", "4", "5", "6", "7", "8", "9"}
LowerLetters == {"a", "b", "c", "d", "e", "f", "g", "h", "i", "j", "k", "l", "m",
                 "n", "o", "p", "q", "r", "s", "t", "u", "v", "w", "x", "y", "z"}
UpperAlphabet == <<"A", "B", "C", "D", "E", "F", "G", "H", "I", "J", "K", "L", "M",
                   "N", "O", "P", "Q", "R", "S", "T", "U", "V", "W", "X", "Y", "Z">>
LowerAlphabet == <<"a", "b", "c", "d", "e", "f", "g", "h", "i", "j", "k", "l", "m",
                   "n", "o", "p", "q", "r", "s", "t", "u", "v", "w", "x", "y", "z">>
\* [a-f0-9]
HexChars == Digits \cup {"a", "b", "c", "d", "e", "f"}
\* [a-z0-9_-]
IdentChars == LowerLetters \cup Digits \cup {"_", "-"}
WhitespaceChars == {" ", "\t", "\n"}

WorkspaceLen == 32
IdentMaxLen == 63

\* the primary composites of the modelled alphabet: a base letter and the
\* combining mark right after it (COMBINING ACUTE ACCENT U+0301, COMBINING
\* CARON U+030C) and the code point they compose to.  Unicode has a
\* composite for j with caron (U+01F0) and none for J with caron, and none
\* for j, J or x with acute or for x with caron.
Composites ==
    { <<"e", "U+0301", "U+00E9">>, <<"E", "U+0301", "U+00C9">>,
      <<"e", "U+030C", "U+011B">>, <<"E", "U+030C", "U+011A">>,
      <<"j", "U+030C", "U+01F0">> }

\* unicodedata.normalize('NFC', s) on the modelled alphabet
RECURSIVE NFC(_)
NFC(s) ==
    IF s = <<>> THEN <<>>
    ELSE IF Len(s) >= 2 /\ \E c \in Composites : c[1] = s[1] /\ c[2] = s[2]
         THEN LET c == CHOOSE c \in Composites : c[1] = s[1] /\ c[2] = s[2]
              IN  <<c[3]>> \o NFC(SubSeq(s, 3, Len(s)))
    ELSE <<s[1]>> \o NFC(Tail(s))

\* str.lower() of one character
LowerChar(c) ==
    IF \E i \in 1..26 : UpperAlphabet[i] = c
    THEN LowerAlphabet[CHOOSE i \in 1..26 : UpperAlphabet[i] = c]
    ELSE IF c = "U+00C9" THEN "U+00E9"
    ELSE IF c = "U+011A" THEN "U+011B"
    ELSE c

\* str.lower()
lower(s) == [i \in 1..Len(s) |-> LowerChar(s[i])]

RECURSIVE lstrip(_)
lstrip(s) ==
    IF s # <<>> /\ s[1] \in WhitespaceChars THEN lstrip(Tail(s)) ELSE s

RECURSIVE rstrip(_)
rstrip(s) ==
    IF s # <<>> /\ s[Len(s)] \in WhitespaceChars
    THEN rstrip(SubSeq(s, 1, Len(s) - 1)) ELSE s

\* str.strip()
strip(s) == rstrip(lstrip(s))

\* the dot-separated segments of a string
RECURSIVE SplitAcc(_, _, _)
SplitAcc(s, cur, acc) ==
    IF s = <<>> THEN Append(acc, cur)
    ELSE IF s[1] = "." THEN SplitAcc(Tail(s), <<>>, Append(acc, cur))
    ELSE SplitAcc(Tail(s), Append(cur, s[1]), acc)

SplitDots(s) == SplitAcc(s, <<>>, <<>>)

(***************************************************************************)
(* srn.py                                                                  *)
(***************************************************************************)
\* class SubjectType
SubjectType == {
    <<"u", "s", "e", "r">>,
    <<"a", "g", "e", "n", "t">>,
    <<"w", "o", "r", "k", "s", "p", "a", "c", "e">>,
    <<"c", "o", "n", "t", "a", "c", "t">>,
    <<"p", "r", "o", "j", "e", "c", "t">>,
    <<"s", "y", "s", "t", "e", "m">>}

VALID_VERSIONS == {<<"1">>}

\* SRNValidator.WORKSPACE_PATTERN  ^[a-f0-9]{32}$
WORKSPACE_PATTERN(s) == Len(s) = WorkspaceLen /\ AllIn(s, HexChars)

\* SRNValidator.IDENTIFIER_PATTERN  ^[a-z0-9_-]{1,63}$
IDENTIFIER_PATTERN(s) == Len(s) >= 1 /\ Len(s) <= IdentMaxLen /\ AllIn(s, IdentChars)

NoError == "none"

\* each validator returns the exception it raises, or NoError
validate_version(version) ==
    IF version \notin VALID_VERSIONS THEN "InvalidSRNFormatError" ELSE NoError

validate_workspace_uuid(workspace) ==
    IF ~WORKSPACE_PATTERN(workspace) THEN "InvalidWorkspaceError" ELSE NoError

validate_subject_type(subject_type) ==
    IF subject_type \notin SubjectType THEN "InvalidSubjectTypeError" ELSE NoError

validate_identifier(identifier) ==
    IF identifier = <<>> THEN "InvalidIdentifierError"
    ELSE IF ~IDENTIFIER_PATTERN(identifier) THEN "InvalidIdentifierError"
    ELSE NoError

Components(v, w, st, id, p, t, tp) ==
    [version |-> v, workspace |-> w, subject_type |-> st, subject_id |-> id,
     project |-> p, thread |-> t, topic |-> tp]

NoComponents == Components(None, None, None, None, None, None, None)

ProjPrefix == <<"p", "r", "o", "j", "_">>
ThrPrefix == <<"t", "h", "r", "_">>
TopPrefix == <<"t", "o", "p", "_">>

\* one optional group (?:\.<prefix>(?P<g>[a-z0-9_-]{1,63}))? tried on a segment
GroupMatches(seg, prefix) ==
    StartsWith(seg, prefix) /\ IDENTIFIER_PATTERN(SubSeq(seg, Len(prefix) + 1, Len(seg)))

GroupValue(seg, prefix) == SubSeq(seg, Len(prefix) + 1, Len(seg))

\* SRNParser.SRN_PATTERN.match: no character class of the pattern holds ".",
\* so the pattern's literal dots are exactly the dots of the string and the
\* match is decided segment by segment.  The three optional groups are tried
\* in order, each on the next unconsumed segment; "$" needs all consumed.
SRN_PATTERN(s) ==
    LET segs == SplitDots(s)
        n == Len(segs)
        head == n >= 4
                /\ Len(segs[1]) >= 1 /\ AllIn(segs[1], Digits)
                /\ Len(segs[2]) = WorkspaceLen /\ AllIn(segs[2], HexChars)
                /\ segs[3] \in SubjectType
                /\ IDENTIFIER_PATTERN(segs[4])
        hasP == n >= 5 /\ GroupMatches(segs[5], ProjPrefix)
        i1 == IF hasP THEN 6 ELSE 5
        hasT == n >= i1 /\ GroupMatches(segs[i1], ThrPrefix)
        i2 == IF hasT THEN i1 + 1 ELSE i1
        hasTp == n >= i2 /\ GroupMatches(segs[i2], TopPrefix)
        i3 == IF hasTp THEN i2 + 1 ELSE i2
    IN  IF head /\ i3 = n + 1
        THEN [matched |-> TRUE,
              groups |-> Components(segs[1], segs[2], segs[3], segs[4],
                            IF hasP THEN GroupValue(segs[5], ProjPrefix) ELSE None,
                            IF hasT THEN GroupValue(segs[i1], ThrPrefix) ELSE None,
                            IF hasTp THEN GroupValue(segs[i2], TopPrefix) ELSE None)]
        ELSE [matched |-> FALSE, groups |-> NoComponents]

\* SRNParser.canonicalize
canonicalize(srn_string) ==
    IF srn_string = <<>> THEN [err |-> "InvalidSRNFormatError", val |-> <<>>]
    ELSE LET canonicalized == strip(lower(NFC(srn_string)))
         IN  IF canonicalized = <<>>
             THEN [err |-> "InvalidSRNFormatError", val |-> <<>>]
             ELSE [err |-> NoError, val |-> canonicalized]

FirstError(errs) ==
    IF \E i \in 1..Len(errs) : errs[i] # NoError
    THEN errs[CHOOSE i \in 1..Len(errs) :
                 errs[i] # NoError /\ \A j \in 1..(i - 1) : errs[j] = NoError]
    ELSE NoError

\* SRNParser.parse
parse(srn_string) ==
    LET c == canonicalize(srn_string)
        m == SRN_PATTERN(c.val)
        g == m.groups
        e == FirstError(<<
                 validate_version(g.version),
                 validate_workspace_uuid(g.workspace),
                 validate_subject_type(g.subject_type),
                 validate_identifier(g.subject_id),
                 IF Truthy(g.project) THEN validate_identifier(g.project) ELSE NoError,
                 IF Truthy(g.thread) THEN validate_identifier(g.thread) ELSE NoError,
                 IF Truthy(g.topic) THEN validate_identifier(g.topic) ELSE NoError>>)
    IN  IF c.err # NoError THEN [ok |-> FALSE, err |-> c.err, comps |-> NoComponents]
        ELSE IF ~m.matched
             THEN [ok |-> FALSE, err |-> "InvalidSRNFormatError", comps |-> NoComponents]
        ELSE IF e # NoError THEN [ok |-> FALSE, err |-> e, comps |-> NoComponents]
        ELSE [ok |-> TRUE, err |-> NoError, comps |-> g]

\* to_string with the optional segments appended in the wrong order
to_string_misordered(components) ==
    LET srn == components.version \o Dot \o components.workspace \o Dot
               \o components.subject_type \o Dot \o components.subject_id
        p == IF Truthy(components.project)
             THEN Dot \o ProjPrefix \o components.project ELSE <<>>
        t == IF Truthy(components.thread)
             THEN Dot \o ThrPrefix \o components.thread ELSE <<>>
        tp == IF Truthy(components.topic)
              THEN Dot \o TopPrefix \o components.topic ELSE <<>>
    IN  srn \o tp \o t \o p

\* SRNParser.to_string
to_string(components) ==
    LET srn == components.version \o Dot \o components.workspace \o Dot
               \o components.subject_type \o Dot \o components.subject_id
        p == IF Truthy(components.project)
             THEN Dot \o ProjPrefix \o components.project ELSE <<>>
        t == IF Truthy(components.thread)
             THEN Dot \o ThrPrefix \o components.thread ELSE <<>>
        tp == IF Truthy(components.topic)
              THEN Dot \o TopPrefix \o components.topic ELSE <<>>
    IN  srn \o p \o t \o tp

(***************************************************************************)
(* Inputs of the parser                                                    *)
(***************************************************************************)
MaxOptSegs == 3

WS1 == Rep(<<"a", "b", "c", "1", "2", "3", "4", "5">>, 4)
WS2 == Rep(<<"d", "e", "f", "6", "7", "8", "9", "0">>, 4)
WSUpper == Rep(<<"A", "B", "C", "1", "2", "3", "4", "5">>, 4)
WSShort == Rep(<<"a", "b", "c", "1">>, 7)

User == <<"u", "s", "e", "r">>
Agent == <<"a", "g", "e", "n", "t">>
John == <<"j", "o", "h", "n">>
Jane == <<"j", "a", "n", "e">>
Bob == <<"b", "o", "b">>
Ai == <<"a", "i">>
Research == <<"r", "e", "s", "e", "a", "r", "c", "h">>
Chat1 == <<"c", "1">>
Chat2 == <<"c", "2">>
Chat3 == <<"c", "3">>
Nlp == <<"n", "l", "p">>

VersionSegs == {<<"1">>, <<"2">>}
WorkspaceSegs == {WS1, WSUpper, WSShort}
TypeSegs == {User, <<"U", "s", "e", "r">>, <<"b", "o", "t">>}
IdSegs == {John, <<>>, Rep(<<"x">>, IdentMaxLen + 1)}
OptSegs == {ProjPrefix \o Ai, ThrPrefix \o Chat1, TopPrefix \o Nlp, ProjPrefix}

OptSeqs == UNION {[1..n -> OptSegs] : n \in 0..MaxOptSegs}

RawInputs ==
    {<<>>, <<" ">>}
    \cup {pad \o JoinDots(<<v, w, st, id>> \o opt) \o pad :
            v \in VersionSegs, w \in WorkspaceSegs, st \in TypeSegs, id \in IdSegs,
            opt \in OptSeqs, pad \in {<<>>, <<" ">>}}

\* the strings given to canonicalize: every string of at most MaxCanonLen
\* characters over letters of both cases, the two combining marks, a space
MaxCanonLen == 3
CanonChars == {"J", "j", "E", "e", "x", "U+030C", "U+0301", " "}
CanonInputs == UNION {[1..n -> CanonChars] : n \in 0..MaxCanonLen}

NoResult == [ok |-> FALSE, err |-> NoError, comps |-> NoComponents]
NoCanon == [err |-> NoError, val |-> None]

InitSRNVars ==
    /\ canon = NoCanon
    /\ recanon = NoCanon
    /\ parsed = NoResult
    /\ restr = None
    /\ reparsed = NoResult
    /\ srnpc = "start"

(***************************************************************************)
(* context.py: ScopeContext                                                *)
(***************************************************************************)
\* ScopeContext.__init__ from SRNComponents: the components and their string
ScopeContext(components) ==
    [components |-> components, srn_string |-> to_string(components)]

\* the Python value None where an Optional[ScopeContext] is returned
NoScope == [components |-> NoComponents, srn_string |-> None]

\* ScopeContext.__eq__ / __hash__: by srn_string
ScopeEq(a, b) == a.srn_string = b.srn_string

\* to_filter_dict that copies every optional field, set or not
to_filter_dict_all_keys(scope) ==
    [k \in {"workspace", "subject_type", "subject_id", "project", "thread", "topic"} |->
        scope.components[k]]

\* ScopeContext.to_filter_dict
to_filter_dict(scope) ==
    LET c == scope.components
        keys == {"workspace", "subject_type", "subject_id"}
                \cup (IF Truthy(c.project) THEN {"project"} ELSE {})
                \cup (IF Truthy(c.thread) THEN {"thread"} ELSE {})
                \cup (IF Truthy(c.topic) THEN {"topic"} ELSE {})
    IN  [k \in keys |-> c[k]]

\* is_parent_of without the "at least one additional component" check
is_parent_of_no_additional(self, child_scope) ==
    LET s == self.components
        c == child_scope.components
    IN  IF s.workspace # c.workspace \/ s.subject_type # c.subject_type
           \/ s.subject_id # c.subject_id
        THEN FALSE
        ELSE IF Truthy(s.project) /\ c.project # s.project THEN FALSE
        ELSE IF Truthy(s.thread) /\ c.thread # s.thread THEN FALSE
        ELSE IF Truthy(s.topic) /\ c.topic # s.topic THEN FALSE
        ELSE TRUE

\* is_parent_of that accepts the direct parent only
is_parent_of_direct_only(self, child_scope) ==
    LET s == self.components
        c == child_scope.components
        extra == (IF ~Truthy(s.project) /\ Truthy(c.project) THEN 1 ELSE 0)
                 + (IF ~Truthy(s.thread) /\ Truthy(c.thread) THEN 1 ELSE 0)
                 + (IF ~Truthy(s.topic) /\ Truthy(c.topic) THEN 1 ELSE 0)
    IN  is_parent_of_no_additional(self, child_scope) /\ extra = 1

\* ScopeContext.is_parent_of
is_parent_of(self, child_scope) ==
    LET s == self.components
        c == child_scope.components
        has_additional == \/ (~Truthy(s.project) /\ Truthy(c.project))
                          \/ (~Truthy(s.thread) /\ Truthy(c.thread))
                          \/ (~Truthy(s.topic) /\ Truthy(c.topic))
    IN  IF s.workspace # c.workspace \/ s.subject_type # c.subject_type
           \/ s.subject_id # c.subject_id
        THEN FALSE
        ELSE IF Truthy(s.project) /\ c.project # s.project THEN FALSE
        ELSE IF Truthy(s.thread) /\ c.thread # s.thread THEN FALSE
        ELSE IF Truthy(s.topic) /\ c.topic # s.topic THEN FALSE
        ELSE has_additional

\* ScopeContext.is_child_of
is_child_of(self, parent_scope) == is_parent_of(parent_scope, self)

\* get_parent_scope that strips every optional field at once
get_parent_scope_to_base(self) ==
    LET c == self.components
    IN  IF Truthy(c.topic) \/ Truthy(c.thread) \/ Truthy(c.project)
        THEN ScopeContext([c EXCEPT !.project = None, !.thread = None, !.topic = None])
        ELSE NoScope

\* ScopeContext.get_parent_scope
get_parent_scope(self) ==
    LET c == self.components
    IN  IF Truthy(c.topic)
        THEN ScopeContext([c EXCEPT !.topic = None])
        ELSE IF Truthy(c.thread)
        THEN ScopeContext([c EXCEPT !.thread = None, !.topic = None])
        ELSE IF Truthy(c.project)
        THEN ScopeContext([c EXCEPT !.project = None, !.thread = None, !.topic = None])
        ELSE NoScope

\* ScopeContext.get_scope_depth
get_scope_depth(self) ==
    (IF Truthy(self.components.project) THEN 1 ELSE 0)
    + (IF Truthy(self.components.thread) THEN 1 ELSE 0)
    + (IF Truthy(self.components.topic) THEN 1 ELSE 0)

(***************************************************************************)
(* context.py: ScopeResolver                                               *)
(***************************************************************************)
\* resolve_inheritance that takes one step up instead of looping
resolve_inheritance_one_step(scope) ==
    IF get_parent_scope(scope) = NoScope THEN <<scope>>
    ELSE <<scope, get_parent_scope(scope)>>

\* ScopeResolver.resolve_inheritance
RECURSIVE resolve_inheritance(_)
resolve_inheritance(scope) ==
    LET parent_scope == get_parent_scope(scope)
    IN  IF parent_scope = NoScope THEN <<scope>>
        ELSE <<scope>> \o resolve_inheritance(parent_scope)

\* set(list_of_scopes): one element per srn_string
ScopeSet(chain) == {chain[i] : i \in 1..Len(chain)}

\* a &= b on sets of ScopeContext
ScopeIntersect(a, b) == {x \in a : \E y \in b : ScopeEq(x, y)}

RECURSIVE CommonAncestors(_, _)
CommonAncestors(acc, rest) ==
    IF rest = <<>> THEN acc
    ELSE CommonAncestors(ScopeIntersect(acc, ScopeSet(resolve_inheritance(Head(rest)))),
                         Tail(rest))

\* min(common_ancestors, key=depth)
MinDepth(S) == CHOOSE x \in S : \A y \in S : get_scope_depth(x) <= get_scope_depth(y)

\* get_common_parent that answers a single scope with the scope itself
get_common_parent_single_itself(scopes_) ==
    IF scopes_ = <<>> THEN NoScope
    ELSE IF Len(scopes_) = 1 THEN scopes_[1]
    ELSE LET common_ancestors ==
                 CommonAncestors(ScopeSet(resolve_inheritance(scopes_[1])), Tail(scopes_))
         IN  IF common_ancestors = {} THEN NoScope
             ELSE MinDepth(common_ancestors)

\* ScopeResolver.get_common_parent
get_common_parent(scopes_) ==
    IF scopes_ = <<>> THEN NoScope
    ELSE IF Len(scopes_) = 1 THEN get_parent_scope(scopes_[1])
    ELSE LET common_ancestors ==
                 CommonAncestors(ScopeSet(resolve_inheritance(scopes_[1])), Tail(scopes_))
         IN  IF common_ancestors = {} THEN NoScope
             ELSE MinDepth(common_ancestors)

Fields == <<"workspace", "subject_type", "subject_id", "project", "thread", "topic">>

\* the set `values` that merge_scope_filters collects for one field
FieldValues(scopes_, field) ==
    {to_filter_dict(scopes_[i])[field] :
        i \in {j \in 1..Len(scopes_) : field \in DOMAIN to_filter_dict(scopes_[j])}}

\* the lists list(values) can be: a Python set of str iterates in hash order,
\* which the per-process hash seed decides
ListsOf(S) ==
    {s \in [1..Cardinality(S) -> S] : \A i, j \in 1..Cardinality(S) : s[i] = s[j] => i = j}

InKey(field) ==
    CASE field = "workspace" -> "workspace__in"
      [] field = "subject_type" -> "subject_type__in"
      [] field = "subject_id" -> "subject_id__in"
      [] field = "project" -> "project__in"
      [] field = "thread" -> "thread__in"
      [] field = "topic" -> "topic__in"

FieldSet == {Fields[i] : i \in 1..Len(Fields)}
FieldIndex(field) == CHOOSE i \in 1..Len(Fields) : Fields[i] = field

\* merge_scope_filters that always emits the __in form
merge_always_in(scopes_, order) ==
    IF scopes_ = <<>> THEN <<>>
    ELSE IF Len(scopes_) = 1 THEN to_filter_dict(scopes_[1])
    ELSE LET present == {f \in FieldSet : FieldValues(scopes_, f) # {}}
             keys == {InKey(f) : f \in present}
             fieldOf(k) == CHOOSE f \in present : k = InKey(f)
         IN  [k \in keys |-> order[FieldIndex(fieldOf(k))]]

\* ScopeResolver.merge_scope_filters; order[i] is what list(values) gives for
\* the i-th field
merge_scope_filters(scopes_, order) ==
    IF scopes_ = <<>> THEN <<>>
    ELSE IF Len(scopes_) = 1 THEN to_filter_dict(scopes_[1])
    ELSE LET present == {f \in FieldSet : FieldValues(scopes_, f) # {}}
             single == {f \in present : Cardinality(FieldValues(scopes_, f)) = 1}
             keys == single \cup {InKey(f) : f \in present \ single}
             fieldOf(k) == CHOOSE f \in present : k = f \/ k = InKey(f)
         IN  [k \in keys |->
                 IF k \in single THEN order[FieldIndex(k)][1]
                 ELSE order[FieldIndex(fieldOf(k))]]

\* create_scope_from_workspace that tests the identifier as given, not lowercased
create_scope_case_sensitive(workspace, default_subject_type, default_subject_id) ==
    IF Len(workspace) # WorkspaceLen \/ ~AllIn(workspace, HexChars)
    THEN [ok |-> FALSE, err |-> "ScopeResolutionError", scope |-> NoScope]
    ELSE IF default_subject_type \notin SubjectType
    THEN [ok |-> FALSE, err |-> "ScopeResolutionError", scope |-> NoScope]
    ELSE [ok |-> TRUE, err |-> NoError,
          scope |-> ScopeContext(Components(<<"1">>, lower(workspace),
                                            default_subject_type, default_subject_id,
                                            None, None, None))]

\* ScopeResolver.create_scope_from_workspace: the scope it returns, or the
\* exception it raises (a ValueError of SubjectType(...) is wrapped too)
create_scope_from_workspace(workspace, default_subject_type, default_subject_id) ==
    IF Len(workspace) # WorkspaceLen \/ ~AllIn(lower(workspace), HexChars)
    THEN [ok |-> FALSE, err |-> "ScopeResolutionError", scope |-> NoScope]
    ELSE IF default_subject_type \notin SubjectType
    THEN [ok |-> FALSE, err |-> "ScopeResolutionError", scope |-> NoScope]
    ELSE [ok |-> TRUE, err |-> NoError,
          scope |-> ScopeContext(Components(<<"1">>, lower(workspace),
                                            default_subject_type, default_subject_id,
                                            None, None, None))]

(***************************************************************************)
(* Inputs of the scope operations                                          *)
(***************************************************************************)
MaxScopes == 3

Sc(w, st, id, p, t, tp) == ScopeContext(Components(<<"1">>, w, st, id, p, t, tp))

\* scopes that ScopeContext(<string>) yields; the pattern accepts a thread
\* without a project, so such a scope is among them
ScopePool == {
    Sc(WS1, User, John, None, None, None),
    Sc(WS1, User, John, Ai, None, None),
    Sc(WS1, User, John, Ai, Chat1, None),
    Sc(WS1, User, John, Ai, Chat2, None),
    Sc(WS1, User, John, Ai, Chat3, None),
    Sc(WS1, User, John, Ai, Chat1, Nlp),
    Sc(WS1, User, John, None, Chat1, None),
    Sc(WS1, User, John, Ai, None, Nlp),
    Sc(WS1, User, John, Research, None, None),
    Sc(WS1, User, Jane, Ai, None, None),
    Sc(WS1, User, Bob, Research, None, None),
    Sc(WS1, Agent, John, None, None, None),
    Sc(WS2, User, John, None, None, None)}

\* arguments of create_scope_from_workspace
WSNotHex == Rep(<<"g", "h", "1", "2">>, 8)
WSLong == WS1 \o <<"a">>
System == <<"s", "y", "s", "t", "e", "m">>
Default == <<"d", "e", "f", "a", "u", "l", "t">>

WorkspaceArgs == {WS1, WS2, WSUpper, WSShort, WSNotHex, WSLong}
SubjectTypeArgs == {User, Agent, System, <<"b", "o", "t">>, <<"U", "S", "E", "R">>}
SubjectIdArgs == {John, Default, <<>>}

CreateArgs ==
    {[workspace |-> w, default_subject_type |-> st, default_subject_id |-> id] :
        w \in WorkspaceArgs, st \in SubjectTypeArgs, id \in SubjectIdArgs}

NoArgs == [workspace |-> None, default_subject_type |-> None, default_subject_id |-> None]
NoCreated == [ok |-> FALSE, err |-> NoError, scope |-> NoScope]

\* os.path.normcase of posixpath: the string itself
normcase(s) == s

\* the regular expression fnmatch.translate builds from a pattern of literal
\* characters, `*` (any run of characters) and `?` (any one character),
\* matched against the whole name
RECURSIVE GlobMatch(_, _)
GlobMatch(name, pat) ==
    IF pat = <<>> THEN name = <<>>
    ELSE IF pat[1] = "*"
    THEN \E k \in 0..Len(name) : GlobMatch(SubSeq(name, k + 1, Len(name)), Tail(pat))
    ELSE IF name = <<>> THEN FALSE
    ELSE IF pat[1] = "?" THEN GlobMatch(Tail(name), Tail(pat))
    ELSE name[1] = pat[1] /\ GlobMatch(Tail(name), Tail(pat))

\* fnmatch.fnmatch
fnmatch(name, pat) == GlobMatch(normcase(name), normcase(pat))

\* a search that returns each matching scope once
RECURSIVE find_matching_scopes_dedup(_, _)
find_matching_scopes_dedup(pattern_, available_scopes) ==
    IF available_scopes = <<>> THEN <<>>
    ELSE LET n == Len(available_scopes)
             scope == available_scopes[n]
             matching_scopes == find_matching_scopes_dedup(pattern_, SubSeq(available_scopes, 1, n - 1))
         IN  IF fnmatch(scope.srn_string, pattern_)
                /\ \A i \in 1..Len(matching_scopes) : matching_scopes[i] # scope
             THEN Append(matching_scopes, scope)
             ELSE matching_scopes

\* ScopeResolver.find_matching_scopes: matching_scopes after the for loop
\* has run over available_scopes
RECURSIVE find_matching_scopes(_, _)
find_matching_scopes(pattern_, available_scopes) ==
    IF available_scopes = <<>> THEN <<>>
    ELSE LET n == Len(available_scopes)
             scope == available_scopes[n]
             matching_scopes == find_matching_scopes(pattern_, SubSeq(available_scopes, 1, n - 1))
         IN  IF fnmatch(scope.srn_string, pattern_)
             THEN Append(matching_scopes, scope)
             ELSE matching_scopes

\* the patterns callers pass: every user, one workspace, one exact scope,
\* four-letter user names, every thread of a project, everything, nothing
Star == <<"*">>
Patterns == {
    Star \o Dot \o User \o Dot \o Star,
    <<"1">> \o Dot \o WS1 \o Dot \o Star,
    <<"1">> \o Dot \o WS1 \o Dot \o User \o Dot \o John,
    Star \o Dot \o User \o Dot \o <<"j", "?", "?", "?">>,
    Star \o Dot \o ProjPrefix \o Ai \o Dot \o ThrPrefix \o Star,
    Star,
    Star \o Dot \o System \o Dot \o Star}

\* the available scopes of a search: lists over scopes of two workspaces, two
\* subject types, two users and two depths
FindPool == {
    Sc(WS1, User, John, None, None, None),
    Sc(WS1, User, John, Ai, Chat1, None),
    Sc(WS1, User, Jane, Ai, None, None),
    Sc(WS1, Agent, John, None, None, None),
    Sc(WS2, User, Bob, None, None, None)}
AvailableScopes == UNION {[1..n -> FindPool] : n \in 0..MaxScopes}

ScopeLists == UNION {[1..n -> ScopePool] : n \in 0..MaxScopes}

InitScopeVars ==
    /\ pattern = None
    /\ matching = <<>>
    /\ cargs = NoArgs
    /\ created = NoCreated
    /\ filterDict = <<>>
    /\ parentScope = NoScope
    /\ inheritance = <<>>
    /\ isPar = FALSE
    /\ isChild = FALSE
    /\ commonParent = NoScope
    /\ merged = <<>>
    /\ scpc = "start"

(***************************************************************************)
(* SpecSRN: parse a string, print the components, parse the print          *)
(***************************************************************************)
DoParse ==
    /\ srnpc = "start"
    /\ parsed' = parse(raw)
    /\ srnpc' = "parsed"
    /\ UNCHANGED <<raw, restr, reparsed, canon, recanon>>

DoToString ==
    /\ srnpc = "parsed"
    /\ parsed.ok
    /\ restr' = to_string(parsed.comps)
    /\ srnpc' = "printed"
    /\ UNCHANGED <<raw, parsed, reparsed, canon, recanon>>

DoReparse ==
    /\ srnpc = "printed"
    /\ reparsed' = parse(restr)
    /\ srnpc' = "done"
    /\ UNCHANGED <<raw, parsed, restr, canon, recanon>>

(***************************************************************************)
(* SpecCanon: canonicalize a string, then canonicalize the result          *)
(***************************************************************************)
DoCanonicalize ==
    /\ srnpc = "start"
    /\ canon' = canonicalize(raw)
    /\ srnpc' = "canonical"
    /\ UNCHANGED <<raw, parsed, restr, reparsed, recanon>>

DoCanonicalizeAgain ==
    /\ srnpc = "canonical"
    /\ canon.err = NoError
    /\ recanon' = canonicalize(canon.val)
    /\ srnpc' = "recanonical"
    /\ UNCHANGED <<raw, parsed, restr, reparsed, canon>>

(***************************************************************************)
(* SpecScope: the operations on a list of scopes                           *)
(***************************************************************************)
DoIsParentOf ==
    /\ scpc = "start"
    /\ IF Len(scopes) >= 2
       THEN /\ isPar' = is_parent_of(scopes[1], scopes[2])
            /\ isChild' = is_child_of(scopes[2], scopes[1])
       ELSE UNCHANGED <<isPar, isChild>>
    /\ scpc' = "related"
    /\ UNCHANGED <<pattern, matching, scopes, commonParent, merged, cargs, created,
                   filterDict, parentScope, inheritance>>

DoGetCommonParent ==
    /\ scpc = "related"
    /\ commonParent' = get_common_parent(scopes)
    /\ scpc' = "common"
    /\ UNCHANGED <<pattern, matching, scopes, isPar, isChild, merged, cargs, created,
                   filterDict, parentScope, inheritance>>

DoMergeScopeFilters ==
    /\ scpc = "common"
    /\ \E o1 \in ListsOf(FieldValues(scopes, Fields[1])),
          o2 \in ListsOf(FieldValues(scopes, Fields[2])),
          o3 \in ListsOf(FieldValues(scopes, Fields[3])),
          o4 \in ListsOf(FieldValues(scopes, Fields[4])),
          o5 \in ListsOf(FieldValues(scopes, Fields[5])),
          o6 \in ListsOf(FieldValues(scopes, Fields[6])) :
            merged' = merge_scope_filters(scopes, <<o1, o2, o3, o4, o5, o6>>)
    /\ scpc' = "done"
    /\ UNCHANGED <<pattern, matching, scopes, isPar, isChild, commonParent, cargs, created,
                   filterDict, parentScope, inheritance>>

\* the operations on one scope, the first of the list
DoToFilterDict ==
    /\ scpc = "start"
    /\ Len(scopes) >= 1
    /\ filterDict' = to_filter_dict(scopes[1])
    /\ scpc' = "filtered"
    /\ UNCHANGED <<pattern, matching, scopes, isPar, isChild, commonParent, merged, cargs, created,
                   parentScope, inheritance>>

DoGetParentScope ==
    /\ scpc = "filtered"
    /\ parentScope' = get_parent_scope(scopes[1])
    /\ scpc' = "parented"
    /\ UNCHANGED <<pattern, matching, scopes, isPar, isChild, commonParent, merged, cargs, created,
                   filterDict, inheritance>>

DoResolveInheritance ==
    /\ scpc = "parented"
    /\ inheritance' = resolve_inheritance(scopes[1])
    /\ scpc' = "resolved"
    /\ UNCHANGED <<pattern, matching, scopes, isPar, isChild, commonParent, merged, cargs, created,
                   filterDict, parentScope>>

(***************************************************************************)
(* SpecFind: the scopes of a list that match a pattern                     *)
(***************************************************************************)
DoFindMatchingScopes ==
    /\ scpc = "start"
    /\ \E pattern_ \in Patterns :
           /\ pattern' = pattern_
           /\ matching' = find_matching_scopes(pattern_, scopes)
    /\ scpc' = "matched"
    /\ UNCHANGED <<scopes, isPar, isChild, commonParent, merged, cargs, created,
                   filterDict, parentScope, inheritance>>

(***************************************************************************)
(* SpecCreate: a scope made from a legacy workspace identifier             *)
(***************************************************************************)
DoCreateScopeFromWorkspace ==
    /\ cargs # NoArgs
    /\ created = NoCreated
    /\ created' = create_scope_from_workspace(cargs.workspace, cargs.default_subject_type,
                                              cargs.default_subject_id)
    /\ UNCHANGED <<pattern, matching, scopes, isPar, isChild, commonParent, merged, scpc, cargs,
                   filterDict, parentScope, inheritance>>

(***************************************************************************)
(* migration.py: the legacy partitions under working_dir                   *)
(*                                                                         *)
(* fs[w] is the directory working_dir/w: whether it exists and the files   *)
(* os.listdir gives.  A file has a name, of which only the shape matters   *)
(* (kv_store_*.json, doc_status_*.json, another *.json, *.vectordb,        *)
(* *.graphdb), and a content: a JSON object of `items` keys ("dict"), JSON *)
(* that is no object ("list"), or text json.load rejects ("bad").          *)
(* Appending to scope_migration.log is taken to succeed.                   *)
(***************************************************************************)
MaxMigrations == 2

Workspaces == {"legacy", "ghost"}

File(name, data, items) == [name |-> name, data |-> data, items |-> items]

KvStore == File("kv_store_*.json", "dict", 2)
DocStatus == File("doc_status_*.json", "dict", 1)
OtherJson == File("*.json", "dict", 1)
BadJson == File("kv_store_*.json", "bad", 0)
ListJson == File("doc_status_*.json", "list", 0)
VectorDb == File("*.vectordb", "bad", 0)

\* what os.listdir of the legacy partition can give
FileLists == {
    <<>>,
    <<KvStore>>,
    <<BadJson>>,
    <<KvStore, OtherJson>>,
    <<BadJson, VectorDb, KvStore, BadJson>>,
    <<ListJson, DocStatus, KvStore>>}

\* the targets callers pass: scopes made from a string, and one made from
\* components whose workspace is no 32-hex identifier
Targets == {
    Sc(WS1, User, John, Ai, None, None),
    Sc(WSShort, User, John, None, Chat1, None)}

NoTime == -1
NoMessage == "<None>"
NoData == "<None>"

\* file_name.endswith(".json")
EndsWithJson(f) == f.name \in {"kv_store_*.json", "doc_status_*.json", "*.json"}

\* storage_patterns of analyze_workspace, in dict order
StorageTypes == <<"kv_store", "vector_store", "graph_store", "doc_status">>

StoragePattern(storage_type) ==
    CASE storage_type = "kv_store" -> "kv_store_*.json"
      [] storage_type = "vector_store" -> "*.vectordb"
      [] storage_type = "graph_store" -> "*.graphdb"
      [] storage_type = "doc_status" -> "doc_status_*.json"

\* file_name.startswith(prefix) and file_name.endswith(suffix) of the pattern
MatchesPattern(f, storage_type) == f.name = StoragePattern(storage_type)

\* item_count of analyze_workspace for one file
ItemCount(f) == IF EndsWithJson(f) /\ f.data = "dict" THEN f.items ELSE 0

RECURSIVE SumSeq(_)
SumSeq(s) == IF s = <<>> THEN 0 ELSE Head(s) + SumSeq(Tail(s))

SelectFiles(files, storage_type) ==
    SelectSeq(files, LAMBDA f : MatchesPattern(f, storage_type))

\* ScopeMigrationTool.analyze_workspace
analyze_workspace(fsys, workspace) ==
    IF ~fsys[workspace].exists
    THEN [exists |-> FALSE, storage_files |-> <<>>, total_items |-> 0,
          validation_errors |-> <<"Workspace directory does not exist">>]
    ELSE LET files == fsys[workspace].files
             types == {StorageTypes[i] : i \in 1..Len(StorageTypes)}
             found == {st \in types : SelectFiles(files, st) # <<>>}
             counts(st) == [i \in 1..Len(SelectFiles(files, st)) |->
                               ItemCount(SelectFiles(files, st)[i])]
         IN  [exists |-> TRUE,
              storage_files |-> [st \in found |-> counts(st)],
              total_items |-> SumSeq([i \in 1..Len(StorageTypes) |->
                                         SumSeq(counts(StorageTypes[i]))]),
              validation_errors |-> <<>>]

\* target_scope.to_dict(): SRNComponents.to_dict builds a dict and checks
\* nothing, so the try of create_migration_plan never reaches its except
to_dict_raises(target_scope) == FALSE

\* ScopeMigrationTool.create_migration_plan
create_migration_plan(fsys, workspace, target_scope) ==
    LET analysis == analyze_workspace(fsys, workspace)
    IN  IF ~analysis.exists
        THEN [source_workspace |-> workspace, target_scope |-> target_scope,
              storage_types |-> {}, estimated_items |-> <<>>,
              validation_errors |-> <<"Source workspace does not exist">>]
        ELSE [source_workspace |-> workspace, target_scope |-> target_scope,
              storage_types |-> DOMAIN analysis.storage_files,
              estimated_items |-> [st \in DOMAIN analysis.storage_files |->
                                      SumSeq(analysis.storage_files[st])],
              validation_errors |->
                  IF to_dict_raises(target_scope)
                  THEN <<"Invalid target scope">> ELSE <<>>]

\* validate_migration that reports nothing
validate_migration_none(fsys, workspace, target_scope) == <<>>

\* ScopeMigrationTool.validate_migration
validate_migration(fsys, workspace, target_scope) ==
    create_migration_plan(fsys, workspace, target_scope).validation_errors

\* sum(plan.estimated_items.values())
RECURSIVE SumValues(_)
SumValues(d) ==
    IF DOMAIN d = {} THEN 0
    ELSE LET k == CHOOSE x \in DOMAIN d : TRUE
         IN  d[k] + SumValues([x \in DOMAIN d \ {k} |-> d[x]])

\* MigrationStatus as migrate_workspace_to_scope creates it
MigrationStatus(migration_id, workspace, target_scope, now) ==
    [migration_id |-> migration_id, source_workspace |-> workspace,
     target_scope |-> target_scope.srn_string, status |-> "pending",
     start_time |-> now, end_time |-> NoTime, items_migrated |-> 0,
     total_items |-> 0, error_message |-> NoMessage, rollback_data |-> NoData]

\* a loop that an unreadable file ends
RECURSIVE RunLoopAbortOnError(_, _, _, _)
RunLoopAbortOnError(files, i, items_processed, warnings) ==
    IF i > Len(files)
    THEN [idx |-> i, items_processed |-> items_processed, sleeping |-> FALSE,
          warnings |-> warnings]
    ELSE IF ~EndsWithJson(files[i])
    THEN RunLoopAbortOnError(files, i + 1, items_processed, warnings)
    ELSE IF files[i].data = "bad"
    THEN [idx |-> Len(files) + 1, items_processed |-> items_processed,
          sleeping |-> FALSE, warnings |-> warnings + 1]
    ELSE IF files[i].data = "dict"
    THEN [idx |-> i + 1, items_processed |-> items_processed + files[i].items,
          sleeping |-> TRUE, warnings |-> warnings]
    ELSE RunLoopAbortOnError(files, i + 1, items_processed, warnings)

\* the for loop of _perform_migration from the i-th listed file on, up to its
\* next `await asyncio.sleep` (after a JSON object was counted) or its end
RECURSIVE RunLoop(_, _, _, _)
RunLoop(files, i, items_processed, warnings) ==
    IF i > Len(files)
    THEN [idx |-> i, items_processed |-> items_processed, sleeping |-> FALSE,
          warnings |-> warnings]
    ELSE IF ~EndsWithJson(files[i])
    THEN RunLoop(files, i + 1, items_processed, warnings)
    ELSE IF files[i].data = "bad"
    THEN RunLoop(files, i + 1, items_processed, warnings + 1)
    ELSE IF files[i].data = "dict"
    THEN [idx |-> i + 1, items_processed |-> items_processed + files[i].items,
          sleeping |-> TRUE, warnings |-> warnings]
    ELSE RunLoop(files, i + 1, items_processed, warnings)

(***************************************************************************)
(* migration.py: ScopeMigrationTool                                        *)
(*                                                                         *)
(* mig is _migration_status.  A call of migrate_workspace_to_scope is a    *)
(* coroutine: it runs without interruption up to an `await asyncio.sleep`  *)
(* of _perform_migration, where other calls of the tool run, and is        *)
(* resumed later.  co[id] is the frame of the call that made migration id, *)
(* hist[id] the values assigned to its status.status in order, result[id]  *)
(* what the call returned, ret what the last step of any call returned.    *)
(* clock is what datetime.now() gives; it advances with every call of      *)
(* migrate_workspace_to_scope.                                             *)
(***************************************************************************)
MigrationIds == 1..MaxMigrations

\* an id that an existing record may already have
ReusedMigrationId ==
    IF DOMAIN mig = {} THEN Cardinality(DOMAIN mig) + 1 ELSE CHOOSE id \in DOMAIN mig : TRUE

\* uuid.uuid4(): an id no record has
NewMigrationId == Cardinality(DOMAIN mig) + 1

Frame(workspace, target_scope, dry_run, pc, idx, items_processed) ==
    [workspace |-> workspace, target_scope |-> target_scope, dry_run |-> dry_run,
     pc |-> pc, idx |-> idx, items_processed |-> items_processed]

\* scope_migration.log is the bag of its lines: their order is not modelled
LogEntry(level, message, id) == SetToBag({<<level, message, id>>})

RECURSIVE Warnings(_, _)
Warnings(n, id) ==
    IF n = 0 THEN EmptyBag
    ELSE LogEntry("WARNING", "Error processing file", id) (+) Warnings(n - 1, id)

\* the dry-run branch that leaves items_migrated alone
DryRunCompleteNoItems(status, now) ==
    [status EXCEPT !.status = "completed", !.end_time = now]

\* migrate_workspace_to_scope, `if dry_run:` branch
DryRunComplete(status, now) ==
    [status EXCEPT !.status = "completed", !.items_migrated = status.total_items,
                   !.end_time = now]

\* migrate_workspace_to_scope after _perform_migration returned
PerformDone(status, success, now) ==
    IF success
    THEN [status EXCEPT !.status = "completed", !.end_time = now]
    ELSE [status EXCEPT !.status = "failed",
                        !.error_message = "No such file or directory",
                        !.end_time = now]

ReturnOf(status) ==
    [migration_id |-> status.migration_id, status |-> status.status,
     items_migrated |-> status.items_migrated, total_items |-> status.total_items,
     error |-> status.error_message]

\* ScopeMigrationTool.migrate_workspace_to_scope, from the call to its first
\* suspension or its return.  `reachable`: os.listdir of _perform_migration
\* succeeds (the directory analysed a moment ago is still there).
migrate_workspace_to_scope(workspace, target_scope, dry_run, reachable) ==
    LET migration_id == NewMigrationId
        status == MigrationStatus(migration_id, workspace, target_scope, clock)
        validation_errors == validate_migration(fs, workspace, target_scope)
        plan == create_migration_plan(fs, workspace, target_scope)
        running == [status EXCEPT !.status = "running",
                                  !.total_items = SumValues(plan.estimated_items)]
        starting == LogEntry("INFO", "Starting migration", migration_id)
        listed == fs[workspace].exists /\ reachable
        loop == RunLoop(fs[workspace].files, 1, 0, 0)
        looped == [running EXCEPT !.items_migrated = loop.items_processed]
    IN  /\ Cardinality(DOMAIN mig) < MaxMigrations
        /\ clock' = clock + 1
        /\ UNCHANGED fs
        /\ IF validation_errors # <<>>
           THEN /\ mig' = mig @@ (migration_id :>
                            [status EXCEPT !.status = "failed",
                                           !.error_message = "Validation failed"])
                /\ hist' = hist @@ (migration_id :> <<"pending", "failed">>)
                /\ co' = co @@ (migration_id :>
                            Frame(workspace, target_scope, dry_run, "returned", 1, 0))
                /\ result' = result @@ (migration_id :>
                            [migration_id |-> migration_id, status |-> "failed",
                             errors |-> validation_errors])
                /\ log' = log
           ELSE IF dry_run
           THEN /\ mig' = mig @@ (migration_id :> DryRunComplete(running, clock))
                /\ hist' = hist @@ (migration_id :> <<"pending", "running", "completed">>)
                /\ co' = co @@ (migration_id :>
                            Frame(workspace, target_scope, dry_run, "returned", 1, 0))
                /\ result' = result @@ (migration_id :>
                            [migration_id |-> migration_id, status |-> "completed",
                             dry_run |-> TRUE, plan |-> plan])
                /\ log' = log (+) starting (+) LogEntry("INFO", "DRY RUN", migration_id)
           ELSE IF ~listed
           THEN /\ mig' = mig @@ (migration_id :> PerformDone(running, FALSE, clock))
                /\ hist' = hist @@ (migration_id :> <<"pending", "running", "failed">>)
                /\ co' = co @@ (migration_id :>
                            Frame(workspace, target_scope, dry_run, "returned", 1, 0))
                /\ result' = result @@ (migration_id :>
                            ReturnOf(PerformDone(running, FALSE, clock)))
                /\ log' = log (+) starting
                                   (+) LogEntry("ERROR", "Migration failed", migration_id)
           ELSE IF loop.sleeping
           THEN /\ mig' = mig @@ (migration_id :> looped)
                /\ hist' = hist @@ (migration_id :> <<"pending", "running">>)
                /\ co' = co @@ (migration_id :>
                            Frame(workspace, target_scope, dry_run, "sleeping",
                                  loop.idx, loop.items_processed))
                /\ result' = result
                /\ log' = log (+) starting (+) Warnings(loop.warnings, migration_id)
           ELSE /\ mig' = mig @@ (migration_id :> PerformDone(looped, TRUE, clock))
                /\ hist' = hist @@ (migration_id :> <<"pending", "running", "completed">>)
                /\ co' = co @@ (migration_id :>
                            Frame(workspace, target_scope, dry_run, "returned",
                                  loop.idx, loop.items_processed))
                /\ result' = result @@ (migration_id :>
                            ReturnOf(PerformDone(looped, TRUE, clock)))
                /\ log' = log (+) starting (+) Warnings(loop.warnings, migration_id)
                               (+) LogEntry("INFO", "Migration completed", migration_id)
        /\ ret' = [op |-> "migrate_workspace_to_scope", id |-> migration_id]

\* a resumption that leaves the call suspended where it was
resume_stays_suspended(migration_id) ==
    /\ migration_id \in DOMAIN co
    /\ co[migration_id].pc = "sleeping"
    /\ ret' = [op |-> "resume", id |-> migration_id]
    /\ UNCHANGED <<fs, mig, hist, co, result, log, clock>>

\* the same call resumed after `await asyncio.sleep(0.001)`, up to its next
\* suspension or its return
resume_migration(migration_id) ==
    LET frame == co[migration_id]
        status == mig[migration_id]
        loop == RunLoop(fs[frame.workspace].files, frame.idx, frame.items_processed, 0)
        looped == IF loop.items_processed # frame.items_processed \/ loop.sleeping
                  THEN [status EXCEPT !.items_migrated = loop.items_processed]
                  ELSE status
    IN  /\ migration_id \in DOMAIN co
        /\ frame.pc = "sleeping"
        /\ clock' = clock
        /\ UNCHANGED fs
        /\ IF loop.sleeping
           THEN /\ mig' = [mig EXCEPT ![migration_id] = looped]
                /\ hist' = hist
                /\ co' = [co EXCEPT ![migration_id].idx = loop.idx,
                                    ![migration_id].items_processed = loop.items_processed]
                /\ result' = result
                /\ log' = log (+) Warnings(loop.warnings, migration_id)
           ELSE /\ mig' = [mig EXCEPT ![migration_id] = PerformDone(looped, TRUE, clock)]
                /\ hist' = [hist EXCEPT ![migration_id] = Append(@, "completed")]
                /\ co' = [co EXCEPT ![migration_id].pc = "returned",
                                    ![migration_id].idx = loop.idx]
                /\ result' = result @@ (migration_id :>
                            ReturnOf(PerformDone(looped, TRUE, clock)))
                /\ log' = log (+) Warnings(loop.warnings, migration_id)
                               (+) LogEntry("INFO", "Migration completed", migration_id)
        /\ ret' = [op |-> "resume", id |-> migration_id]

\* ScopeMigrationTool.get_migration_status
get_migration_status(migration_id) ==
    /\ ret' = IF migration_id \notin DOMAIN mig
              THEN [op |-> "get_migration_status", id |-> migration_id, found |-> FALSE]
              ELSE LET status == mig[migration_id]
                   IN  [op |-> "get_migration_status", id |-> migration_id,
                        found |-> TRUE,
                        status |-> status.status,
                        start_time |-> status.start_time,
                        end_time |-> status.end_time,
                        items_migrated |-> status.items_migrated,
                        total_items |-> status.total_items,
                        \* items_migrated / total_items * 100 as a fraction
                        progress_percent |->
                            IF status.total_items > 0
                            THEN <<status.items_migrated * 100, status.total_items>>
                            ELSE <<0, 1>>,
                        error_message |-> status.error_message]
    /\ UNCHANGED <<fs, mig, hist, co, result, log, clock>>

\* rollback is refused unless the migration is completed or failed
RollbackAllowedAlsoFailed(status) == status.status \in {"completed", "failed"}

\* rollback_migration: `if status.status != "completed": return error`
RollbackAllowed(status) == status.status = "completed"

\* a rollback that also resets the progress counter
RolledBackCleared(status) ==
    [status EXCEPT !.status = "rolled_back", !.items_migrated = 0]

\* rollback_migration: `status.status = "rolled_back"`
RolledBack(status) == [status EXCEPT !.status = "rolled_back"]

\* ScopeMigrationTool.rollback_migration
rollback_migration(migration_id) ==
    /\ IF migration_id \notin DOMAIN mig
       THEN /\ ret' = [op |-> "rollback_migration", id |-> migration_id,
                       status |-> "error", message |-> "not found"]
            /\ UNCHANGED <<mig, hist, log>>
       ELSE IF ~RollbackAllowed(mig[migration_id])
       THEN /\ ret' = [op |-> "rollback_migration", id |-> migration_id,
                       status |-> "error", message |-> "Cannot rollback migration"]
            /\ UNCHANGED <<mig, hist, log>>
       ELSE /\ mig' = [mig EXCEPT ![migration_id] = RolledBack(@)]
            /\ hist' = [hist EXCEPT ![migration_id] = Append(@, "rolled_back")]
            /\ log' = log (+) LogEntry("INFO", "Rolling back migration", migration_id)
            /\ ret' = [op |-> "rollback_migration", id |-> migration_id,
                       status |-> "success", message |-> "rolled back successfully"]
    /\ UNCHANGED <<fs, co, result, clock>>

(***************************************************************************)
(* lightrag_scope.py: ScopeAwareLightRAG                                   *)
(*                                                                         *)
(* One instance is shared by the calls.  A call of aquery or ainsert runs  *)
(* without interruption up to `await self._lightrag.aquery / ainsert`,     *)
(* where the event loop runs other calls, and from the return of that      *)
(* await through its `finally`.  calls[i] is the frame of the i-th call:   *)
(* its scope argument (None: no override), its local original_scope, and   *)
(* whether the underlying operation is running or the call has returned.   *)
(***************************************************************************)
MaxCalls == 2

\* the scopes given to set_scope and as the scope argument
RagScopes == {
    Sc(WS1, User, John, None, None, None),
    Sc(WS1, User, Jane, Ai, None, None),
    Sc(WS2, User, Bob, None, None, None)}

Call(op, scope, original_scope, pc) ==
    [op |-> op, scope |-> scope, original_scope |-> original_scope, pc |-> pc]

InitRagVars ==
    /\ current_scope = NoScope
    /\ storage_scope = NoScope
    /\ calls = <<>>
    /\ scope_before = NoScope

\* aquery / ainsert from the call to the await of the underlying operation:
\* original_scope = self._current_scope, then set_scope(scope) when a scope
\* is given, which also applies it to the storages
Begin(op, scope) ==
    /\ Len(calls) < MaxCalls
    /\ calls' = Append(calls, Call(op, scope, current_scope, "running"))
    /\ IF scope # NoScope
       THEN current_scope' = scope /\ storage_scope' = scope
       ELSE UNCHANGED <<current_scope, storage_scope>>
    /\ UNCHANGED scope_before

\* aquery / ainsert from the return (or exception) of the underlying
\* operation on: `finally: if scope is not None: self.set_scope(original_scope)`
End(i) ==
    /\ i \in 1..Len(calls)
    /\ calls[i].pc = "running"
    /\ calls' = [calls EXCEPT ![i].pc = "returned"]
    /\ IF calls[i].scope # NoScope
       THEN /\ current_scope' = calls[i].original_scope
            /\ storage_scope' = calls[i].original_scope
       ELSE UNCHANGED <<current_scope, storage_scope>>
    /\ UNCHANGED scope_before

\* ScopeAwareLightRAG.aquery
aquery_begin == \E scope \in RagScopes \cup {NoScope} : Begin("aquery", scope)
aquery_end == \E i \in 1..MaxCalls : End(i) /\ calls[i].op = "aquery"

\* ScopeAwareLightRAG.ainsert
ainsert_begin == \E scope \in RagScopes \cup {NoScope} : Begin("ainsert", scope)
ainsert_end == \E i \in 1..MaxCalls : End(i) /\ calls[i].op = "ainsert"

(***************************************************************************)
(* Specifications                                                          *)
(***************************************************************************)
NoFiles == [exists |-> FALSE, files |-> <<>>]

InitMigVars ==
    /\ mig = <<>>
    /\ hist = <<>>
    /\ co = <<>>
    /\ result = <<>>
    /\ ret = [op |-> "init", id |-> 0]
    /\ log = EmptyBag
    /\ clock = 0

\* the tool after __init__, over a working_dir that holds one legacy partition
Init ==
    /\ raw = <<>> /\ InitSRNVars
    /\ scopes = <<>> /\ InitScopeVars
    /\ \E files \in FileLists :
           fs = [w \in Workspaces |->
                    IF w = "legacy" THEN [exists |-> TRUE, files |-> files] ELSE NoFiles]
    /\ InitMigVars
    /\ InitRagVars

Next ==
    \/ /\ \E workspace \in Workspaces, target_scope \in Targets,
             dry_run \in BOOLEAN, reachable \in BOOLEAN :
               migrate_workspace_to_scope(workspace, target_scope, dry_run, reachable)
       /\ UNCHANGED <<srnVars, scopeVars, ragVars>>
    \/ /\ \E migration_id \in MigrationIds : resume_migration(migration_id)
       /\ UNCHANGED <<srnVars, scopeVars, ragVars>>
    \/ /\ \E migration_id \in MigrationIds : get_migration_status(migration_id)
       /\ UNCHANGED <<srnVars, scopeVars, ragVars>>
    \/ /\ \E migration_id \in MigrationIds : rollback_migration(migration_id)
       /\ UNCHANGED <<srnVars, scopeVars, ragVars>>

Spec == Init /\ [][Next]_vars

InitSRN ==
    /\ raw \in RawInputs /\ InitSRNVars
    /\ scopes = <<>> /\ InitScopeVars
    /\ fs = [w \in Workspaces |-> NoFiles] /\ InitMigVars
    /\ InitRagVars

NextSRN ==
    \/ DoParse /\ UNCHANGED <<scopeVars, migVars, ragVars>>
    \/ DoToString /\ UNCHANGED <<scopeVars, migVars, ragVars>>
    \/ DoReparse /\ UNCHANGED <<scopeVars, migVars, ragVars>>

SpecSRN == InitSRN /\ [][NextSRN]_vars

InitCanon ==
    /\ raw \in CanonInputs /\ InitSRNVars
    /\ scopes = <<>> /\ InitScopeVars
    /\ fs = [w \in Workspaces |-> NoFiles] /\ InitMigVars
    /\ InitRagVars

NextCanon ==
    \/ DoCanonicalize /\ UNCHANGED <<scopeVars, migVars, ragVars>>
    \/ DoCanonicalizeAgain /\ UNCHANGED <<scopeVars, migVars, ragVars>>

SpecCanon == InitCanon /\ [][NextCanon]_vars

InitScope ==
    /\ raw = <<>> /\ InitSRNVars
    /\ scopes \in ScopeLists /\ InitScopeVars
    /\ fs = [w \in Workspaces |-> NoFiles] /\ InitMigVars
    /\ InitRagVars

NextScope ==
    \/ DoIsParentOf /\ UNCHANGED <<srnVars, migVars, ragVars>>
    \/ DoGetCommonParent /\ UNCHANGED <<srnVars, migVars, ragVars>>
    \/ DoMergeScopeFilters /\ UNCHANGED <<srnVars, migVars, ragVars>>
    \/ DoToFilterDict /\ UNCHANGED <<srnVars, migVars, ragVars>>
    \/ DoGetParentScope /\ UNCHANGED <<srnVars, migVars, ragVars>>
    \/ DoResolveInheritance /\ UNCHANGED <<srnVars, migVars, ragVars>>

SpecScope == InitScope /\ [][NextScope]_vars

\* the instance after set_scope(scope) or with no scope set, no call made yet
InitRAG ==
    /\ raw = <<>> /\ InitSRNVars
    /\ scopes = <<>> /\ InitScopeVars
    /\ fs = [w \in Workspaces |-> NoFiles]
    /\ mig = <<>> /\ hist = <<>> /\ co = <<>> /\ result = <<>>
    /\ ret = [op |-> "init", id |-> 0] /\ log = EmptyBag /\ clock = 0
    /\ \E scope \in RagScopes \cup {NoScope} :
           /\ current_scope = scope
           /\ storage_scope = scope
           /\ scope_before = scope
    /\ calls = <<>>

NextRAG ==
    \/ aquery_begin /\ UNCHANGED <<srnVars, scopeVars, migVars>>
    \/ aquery_end /\ UNCHANGED <<srnVars, scopeVars, migVars>>
    \/ ainsert_begin /\ UNCHANGED <<srnVars, scopeVars, migVars>>
    \/ ainsert_end /\ UNCHANGED <<srnVars, scopeVars, migVars>>

SpecRAG == InitRAG /\ [][NextRAG]_vars

InitFind ==
    /\ raw = <<>> /\ InitSRNVars
    /\ scopes \in AvailableScopes /\ InitScopeVars
    /\ fs = [w \in Workspaces |-> NoFiles] /\ InitMigVars
    /\ InitRagVars

NextFind ==
    \/ DoFindMatchingScopes /\ UNCHANGED <<srnVars, migVars, ragVars>>

SpecFind == InitFind /\ [][NextFind]_vars

InitCreate ==
    /\ raw = <<>> /\ InitSRNVars
    /\ scopes = <<>> /\ isPar = FALSE /\ isChild = FALSE /\ commonParent = NoScope
    /\ merged = <<>> /\ scpc = "start"
    /\ cargs \in CreateArgs /\ created = NoCreated
    /\ filterDict = <<>> /\ parentScope = NoScope /\ inheritance = <<>>
    /\ pattern = None /\ matching = <<>>
    /\ fs = [w \in Workspaces |-> NoFiles] /\ InitMigVars
    /\ InitRagVars

NextCreate ==
    \/ DoCreateScopeFromWorkspace /\ UNCHANGED <<srnVars, migVars, ragVars>>

SpecCreate == InitCreate /\ [][NextCreate]_vars

(***************************************************************************)
(* Properties of the parser (SpecSRN)                                      *)
(***************************************************************************)
\* C1: whenever parse returns components, thread is present only with
\* project, and topic only with thread and project: an input that skips a
\* level is rejected.
C1_OptionalSegmentsContiguous ==
    srnpc # "start" /\ parsed.ok =>
        /\ Truthy(parsed.comps.thread) => Truthy(parsed.comps.project)
        /\ Truthy(parsed.comps.topic) =>
               Truthy(parsed.comps.thread) /\ Truthy(parsed.comps.project)

\* C7: for every string parse accepts, to_string(parse(s)) is the canonical
\* form of s, and parsing that string again yields the same components.
C7_RoundTrip ==
    /\ srnpc \in {"printed", "done"} => restr = canonicalize(raw).val
    /\ srnpc = "done" => reparsed.ok /\ reparsed.comps = parsed.comps

\* a non-canonical string with all three optional segments went round
C7_NonCanonicalRoundTrip ==
    /\ srnpc = "done"
    /\ raw # canonicalize(raw).val
    /\ Truthy(parsed.comps.project)
    /\ Truthy(parsed.comps.thread)
    /\ Truthy(parsed.comps.topic)

\* the dot-separated segments of the canonical form of the input
RawSegs == SplitDots(canonicalize(raw).val)

\* an optional segment: one of the three prefixes, then its identifier
OptPrefixOf(seg) ==
    IF StartsWith(seg, ProjPrefix) THEN ProjPrefix
    ELSE IF StartsWith(seg, ThrPrefix) THEN ThrPrefix
    ELSE IF StartsWith(seg, TopPrefix) THEN TopPrefix
    ELSE <<>>

\* the input has the four mandatory segments and only prefixed segments after
ShapedInput ==
    /\ canonicalize(raw).err = NoError
    /\ Len(RawSegs) >= 4
    /\ \A i \in 5..Len(RawSegs) : OptPrefixOf(RawSegs[i]) # <<>>

\* the parts of a shaped input that break their rule
Defects ==
    (IF RawSegs[1] # <<"1">> THEN {"version"} ELSE {})
    \cup (IF ~(Len(RawSegs[2]) = WorkspaceLen /\ AllIn(RawSegs[2], HexChars))
          THEN {"workspace"} ELSE {})
    \cup (IF RawSegs[3] \notin SubjectType THEN {"subject_type"} ELSE {})
    \cup (IF \/ ~IDENTIFIER_PATTERN(RawSegs[4])
             \/ \E i \in 5..Len(RawSegs) :
                    ~IDENTIFIER_PATTERN(GroupValue(RawSegs[i], OptPrefixOf(RawSegs[i])))
          THEN {"identifier"} ELSE {})

\* C11: parse reports the error kind of the defective part: a bad version
\* gives InvalidSRNFormatError, a workspace that is not 32 hex characters
\* InvalidWorkspaceError, a subject type outside the closed set
\* InvalidSubjectTypeError, an identifier that breaks [a-z0-9_-]{1,63}
\* InvalidIdentifierError.
C11_ErrorKindMatchesDefect ==
    srnpc # "start" /\ ShapedInput =>
        /\ Defects = {"version"} => parsed.err = "InvalidSRNFormatError"
        /\ Defects = {"workspace"} => parsed.err = "InvalidWorkspaceError"
        /\ Defects = {"subject_type"} => parsed.err = "InvalidSubjectTypeError"
        /\ Defects = {"identifier"} => parsed.err = "InvalidIdentifierError"

\* C20: canonicalize is idempotent: whenever canonicalize succeeds on the
\* input, canonicalizing its result succeeds too and returns that result
\* unchanged
C20_CanonicalizeIdempotent ==
    srnpc = "recanonical" =>
        /\ recanon.err = NoError
        /\ recanon.val = canon.val

(***************************************************************************)
(* Properties of the scope operations (SpecScope)                          *)
(***************************************************************************)
\* is_parent_of and is_child_of were called on the first two scopes
Related == scpc \in {"related", "common", "done"}

\* the intersection of the inheritance chains of the listed scopes
CommonChain ==
    CommonAncestors(ScopeSet(resolve_inheritance(scopes[1])), Tail(scopes))

\* the element of maximum depth of a non-empty set of scopes
MaxDepth(S) == CHOOSE x \in S : \A y \in S : get_scope_depth(x) >= get_scope_depth(y)

\* C2: for two or more scopes whose inheritance chains intersect,
\* get_common_parent returns the element of the intersection of maximum
\* depth.
C2_CommonParentIsDeepest ==
    scpc \in {"common", "done"} /\ Len(scopes) >= 2 =>
        (CommonChain # {} => commonParent = MaxDepth(CommonChain))

OptionalFields == {"project", "thread", "topic"}

\* C8: a.is_parent_of(b) is true iff the mandatory fields are equal, every
\* optional field present in a has the same value in b, and b has an
\* optional field a lacks; it is never true when a == b, and b.is_child_of(a)
\* gives the same answer.
C8_IsParentOfCharacterised ==
    Related /\ Len(scopes) >= 2 =>
        LET a == scopes[1].components
            b == scopes[2].components
            expected ==
                /\ a.workspace = b.workspace
                /\ a.subject_type = b.subject_type
                /\ a.subject_id = b.subject_id
                /\ \A f \in OptionalFields : a[f] # None => b[f] = a[f]
                /\ \E f \in OptionalFields : a[f] = None /\ b[f] # None
        IN  /\ isPar = expected
            /\ ScopeEq(scopes[1], scopes[2]) => ~isPar
            /\ isChild = isPar

\* is_parent_of and is_child_of answered yes for a pair
C8_ParentAndChild ==
    Related /\ Len(scopes) >= 2 /\ isPar /\ isChild

\* a is a grandparent or more distant ancestor of b: the mandatory fields
\* agree, every optional field of a has the same value in b, and b has two
\* or more optional fields beyond those of a
DistantAncestor(a, b) ==
    LET x == a.components
        y == b.components
    IN  /\ x.workspace = y.workspace
        /\ x.subject_type = y.subject_type
        /\ x.subject_id = y.subject_id
        /\ \A f \in OptionalFields : x[f] # None => y[f] = x[f]
        /\ Cardinality({f \in OptionalFields : x[f] = None /\ y[f] # None}) >= 2

\* C9 as stated: when a is a grandparent or more distant ancestor of b,
\* a.is_parent_of(b) is false.
C9_GrandparentIsNotParent ==
    Related /\ Len(scopes) >= 2 /\ DistantAncestor(scopes[1], scopes[2])
        => ~isPar

\* C9 amended: when a is a grandparent or more distant ancestor of b,
\* a.is_parent_of(b) is true: is_parent_of relates every proper ancestor.
C9_GrandparentIsParent ==
    Related /\ Len(scopes) >= 2 /\ DistantAncestor(scopes[1], scopes[2])
        => isPar

\* is_parent_of was asked of a base scope and its great-grandchild
C9_BaseAndGreatGrandchild ==
    /\ Related /\ Len(scopes) >= 2
    /\ DistantAncestor(scopes[1], scopes[2])
    /\ get_scope_depth(scopes[1]) = 0
    /\ get_scope_depth(scopes[2]) = 3

\* the values of one field over the scopes, each once, in first-seen order
RECURSIVE FirstSeenFrom(_, _, _, _)
FirstSeenFrom(scopes_, field, i, acc) ==
    IF i > Len(scopes_) THEN acc
    ELSE LET d == to_filter_dict(scopes_[i])
         IN  IF field \in DOMAIN d /\ \A j \in 1..Len(acc) : acc[j] # d[field]
             THEN FirstSeenFrom(scopes_, field, i + 1, Append(acc, d[field]))
             ELSE FirstSeenFrom(scopes_, field, i + 1, acc)

FirstSeen(scopes_, field) == FirstSeenFrom(scopes_, field, 1, <<>>)

MergedKeys == FieldSet \cup {InKey(f) : f \in FieldSet}

\* C10 as stated: for two or more scopes the merged filter has, for each
\* field that occurs, `field: value` when one distinct value occurs and
\* `field__in: [values]` otherwise, the list in first-seen order.
C10_MergeFirstSeenOrder ==
    scpc = "done" /\ Len(scopes) >= 2 =>
        /\ DOMAIN merged \subseteq MergedKeys
        /\ \A f \in FieldSet :
               LET vals == FirstSeen(scopes, f)
               IN  IF vals = <<>>
                   THEN f \notin DOMAIN merged /\ InKey(f) \notin DOMAIN merged
                   ELSE IF Len(vals) = 1
                   THEN /\ InKey(f) \notin DOMAIN merged
                        /\ f \in DOMAIN merged
                        /\ merged[f] = vals[1]
                   ELSE /\ f \notin DOMAIN merged
                        /\ InKey(f) \in DOMAIN merged
                        /\ merged[InKey(f)] = vals

\* C10 amended: as stated, but the list of `field__in` holds each distinct
\* value once in an order the program does not determine.
C10_MergeDistinctValues ==
    scpc = "done" /\ Len(scopes) >= 2 =>
        /\ DOMAIN merged \subseteq MergedKeys
        /\ \A f \in FieldSet :
               LET vals == FirstSeen(scopes, f)
               IN  IF vals = <<>>
                   THEN f \notin DOMAIN merged /\ InKey(f) \notin DOMAIN merged
                   ELSE IF Len(vals) = 1
                   THEN /\ InKey(f) \notin DOMAIN merged
                        /\ f \in DOMAIN merged
                        /\ merged[f] = vals[1]
                   ELSE /\ f \notin DOMAIN merged
                        /\ InKey(f) \in DOMAIN merged
                        /\ Len(merged[InKey(f)]) = Len(vals)
                        /\ {merged[InKey(f)][i] : i \in 1..Len(vals)}
                               = {vals[i] : i \in 1..Len(vals)}

\* subject ids john, jane, bob in that order were merged into another order
C10_JohnJaneBobReordered ==
    /\ scpc = "done" /\ Len(scopes) = 3
    /\ FirstSeen(scopes, "subject_id") = <<John, Jane, Bob>>
    /\ "subject_id__in" \in DOMAIN merged
    /\ merged["subject_id__in"] = <<John, Bob, Jane>>

\* the most specific optional field a scope has, "none" for a base scope
MostSpecific(c) ==
    IF c.topic # None THEN "topic"
    ELSE IF c.thread # None THEN "thread"
    ELSE IF c.project # None THEN "project"
    ELSE "none"

\* the components with the most specific optional field taken away
StrippedOnce(c) == [c EXCEPT ![MostSpecific(c)] = None]

MandatoryFields == {"version", "workspace", "subject_type", "subject_id"}

\* C16: resolve_inheritance(x) is a list of depth(x)+1 scopes: x first, each
\* following element the parent of the one before with a depth one less, the
\* base scope of x's workspace, subject_type and subject_id last.
C16_InheritanceChainShape ==
    scpc = "resolved" =>
        LET x == scopes[1]
            n == Len(inheritance)
        IN  /\ n = get_scope_depth(x) + 1
            /\ inheritance[1] = x
            /\ \A i \in 2..n :
                   /\ inheritance[i].components = StrippedOnce(inheritance[i - 1].components)
                   /\ get_scope_depth(inheritance[i]) = get_scope_depth(inheritance[i - 1]) - 1
            /\ get_scope_depth(inheritance[n]) = 0
            /\ \A f \in MandatoryFields \ {"version"} :
                   inheritance[n].components[f] = x.components[f]

\* the chain of a scope with project, thread and topic was resolved
C16_FullChainResolved ==
    /\ scpc = "resolved"
    /\ get_scope_depth(scopes[1]) = 3
    /\ Len(inheritance) = 4

\* C17: get_parent_scope removes exactly the most specific optional field
\* present (topic, else thread, else project) and keeps every other field,
\* so the depth falls by one; for a scope with no optional field it is None.
C17_ParentStripsMostSpecific ==
    scpc \in {"parented", "resolved"} =>
        LET c == scopes[1].components
        IN  IF MostSpecific(c) = "none"
            THEN parentScope = NoScope
            ELSE /\ parentScope # NoScope
                 /\ parentScope.components = StrippedOnce(c)
                 /\ get_scope_depth(parentScope) = get_scope_depth(scopes[1]) - 1

\* the parent of a scope with a topic kept its project and thread
C17_TopicStripped ==
    /\ scpc = "parented"
    /\ scopes[1].components.topic = Nlp
    /\ parentScope.components.topic = None
    /\ parentScope.components.thread = Chat1
    /\ parentScope.components.project = Ai

\* C18 as stated: to_filter_dict has exactly the mandatory fields (version,
\* workspace, subject_type, subject_id) plus the optional fields the scope
\* has, each with the scope's value, and no key whose value is None.
C18_FilterHasMandatoryFields ==
    scpc \in {"filtered", "parented", "resolved"} =>
        LET c == scopes[1].components
        IN  /\ DOMAIN filterDict = MandatoryFields \cup {f \in OptionalFields : c[f] # None}
            /\ \A k \in DOMAIN filterDict : filterDict[k] = c[k] /\ filterDict[k] # None

\* C18 amended: the keys are workspace, subject_type and subject_id, never
\* version, plus the optional fields the scope has.
C18_FilterHasScopeFields ==
    scpc \in {"filtered", "parented", "resolved"} =>
        LET c == scopes[1].components
        IN  /\ DOMAIN filterDict = (MandatoryFields \ {"version"})
                                   \cup {f \in OptionalFields : c[f] # None}
            /\ \A k \in DOMAIN filterDict : filterDict[k] = c[k] /\ filterDict[k] # None

\* the filter of a scope with a project and no thread was built
C18_ProjectOnlyFilter ==
    /\ scpc = "filtered"
    /\ DOMAIN filterDict = {"workspace", "subject_type", "subject_id", "project"}
    /\ filterDict["project"] = Ai

\* C19: get_common_parent of a list of one scope is that scope's direct
\* parent (None for a base scope), never the scope itself; of an empty list
\* it is None.
C19_SingleScopeGivesParent ==
    scpc \in {"common", "done"} =>
        /\ Len(scopes) = 0 => commonParent = NoScope
        /\ Len(scopes) = 1 =>
               LET c == scopes[1].components
               IN  /\ commonParent # scopes[1]
                   /\ IF MostSpecific(c) = "none"
                      THEN commonParent = NoScope
                      ELSE /\ commonParent.components = StrippedOnce(c)
                           /\ get_scope_depth(commonParent) = get_scope_depth(scopes[1]) - 1

\* the common parent of a single thread-level scope was its project scope
C19_SingleThreadScope ==
    /\ scpc = "common" /\ Len(scopes) = 1
    /\ scopes[1].components.thread = Chat1 /\ scopes[1].components.project = Ai
    /\ scopes[1].components.topic = None
    /\ commonParent.components.project = Ai
    /\ commonParent.components.thread = None

(***************************************************************************)
(* Properties of create_scope_from_workspace (SpecCreate)                  *)
(***************************************************************************)
\* the base scope of the given workspace, subject type and subject id
CreatedIsBaseScope(workspace) ==
    /\ created.ok
    /\ get_scope_depth(created.scope) = 0
    /\ created.scope.components.workspace = workspace
    /\ created.scope.components.subject_type = cargs.default_subject_type
    /\ created.scope.components.subject_id = cargs.default_subject_id

CreatedIsError == ~created.ok /\ created.err = "ScopeResolutionError"

\* C12 as stated: create_scope_from_workspace fails with ScopeResolutionError
\* unless the identifier is exactly 32 lowercase hexadecimal characters, and
\* otherwise returns the base scope of that workspace with the supplied
\* subject type and id (the supplied subject type being one of the six).
C12_RejectsUnlessLowercaseHex ==
    created # NoCreated /\ cargs.default_subject_type \in SubjectType =>
        IF WORKSPACE_PATTERN(cargs.workspace)
        THEN CreatedIsBaseScope(cargs.workspace)
        ELSE CreatedIsError

\* C12 amended: it fails with ScopeResolutionError unless the identifier is
\* 32 hexadecimal characters in either letter case and the subject type is
\* one of the six; otherwise it returns the base scope of the lowercased
\* identifier with the supplied subject type and id.
C12_AcceptsEitherCase ==
    created # NoCreated =>
        IF /\ Len(cargs.workspace) = WorkspaceLen
           /\ AllIn(cargs.workspace, HexChars \cup {"A", "B", "C", "D", "E", "F"})
           /\ cargs.default_subject_type \in SubjectType
        THEN CreatedIsBaseScope(lower(cargs.workspace))
        ELSE CreatedIsError

\* an identifier with uppercase hexadecimal letters was accepted
C12_UppercaseAccepted ==
    /\ cargs.workspace = WSUpper
    /\ created.ok
    /\ created.scope.components.workspace = WS1

(***************************************************************************)
(* Properties of the migration tool (Spec)                                 *)
(***************************************************************************)
SpecEdges == {<<"pending", "running">>, <<"running", "completed">>,
              <<"running", "failed">>, <<"completed", "rolled_back">>}

\* C3: the state of each migration record changes only along
\* pending->running, running->completed, running->failed and
\* completed->rolled_back.
C3_OnlySpecEdges ==
    \A id \in DOMAIN hist :
        /\ hist[id][1] = "pending"
        /\ \A i \in 1..(Len(hist[id]) - 1) :
               <<hist[id][i], hist[id][i + 1]>> \in SpecEdges

\* C4: rollback_migration(id) sets a completed migration to rolled_back and
\* reports success; for an unknown id or a migration in any other state it
\* returns an error and leaves every status record unchanged.
C4_RollbackOnlyFromCompleted ==
    [][ret'.op = "rollback_migration" =>
          IF ret'.id \in DOMAIN mig /\ mig[ret'.id].status = "completed"
          THEN /\ ret'.status = "success"
               /\ mig' = [mig EXCEPT ![ret'.id].status = "rolled_back"]
          ELSE /\ ret'.status = "error"
               /\ mig' = mig]_vars

\* a second rollback of an already rolled-back migration was refused
C4_SecondRollbackRefused ==
    /\ ret.op = "rollback_migration"
    /\ ret.status = "error"
    /\ ret.id \in DOMAIN mig
    /\ mig[ret.id].status = "rolled_back"

PlanOf(id) == create_migration_plan(fs, co[id].workspace, co[id].target_scope)

\* C5: a migration whose plan carries validation errors never enters running
\* or completed, processes no record, keeps items_migrated at 0 and returns
\* failure with those errors, for either dry_run value.
C5_InvalidPlanNeverExecuted ==
    \A id \in DOMAIN mig :
        PlanOf(id).validation_errors # <<>> =>
            /\ \A i \in 1..Len(hist[id]) : hist[id][i] \notin {"running", "completed"}
            /\ co[id].idx = 1 /\ co[id].items_processed = 0
            /\ mig[id].items_migrated = 0
            /\ mig[id].status = "failed"
            /\ id \in DOMAIN result
            /\ result[id].status = "failed"
            /\ result[id].errors = PlanOf(id).validation_errors

\* a dry run and a real run were both refused for validation errors
C5_BothRefused ==
    \E a, b \in DOMAIN mig :
        /\ PlanOf(a).validation_errors # <<>> /\ co[a].dry_run
        /\ PlanOf(b).validation_errors # <<>> /\ ~co[b].dry_run
        /\ mig[a].status = "failed" /\ mig[b].status = "failed"

DryRunState ==
    \A id \in DOMAIN mig :
        co[id].dry_run /\ PlanOf(id).validation_errors = <<>> =>
            /\ Len(hist[id]) >= 3
            /\ SubSeq(hist[id], 1, 3) = <<"pending", "running", "completed">>
            /\ co[id].idx = 1 /\ co[id].items_processed = 0
            /\ mig[id].total_items = SumValues(PlanOf(id).estimated_items)
            /\ mig[id].items_migrated = mig[id].total_items

\* C6: a dry run that passes validation never mutates the legacy partition
\* and goes from running straight to completed with items_migrated ==
\* total_items, the sum of the plan's estimated item counts.
C6_DryRunCompletesUntouched ==
    []DryRunState /\ [][fs' = fs]_vars

\* a dry run over a partition that holds items completed
C6_DryRunCompleted ==
    \E id \in DOMAIN mig :
        /\ co[id].dry_run
        /\ mig[id].status = "completed"
        /\ mig[id].total_items > 0

\* C13: rollback_migration reports success and marks a migration
\* rolled_back only if its changes were reversed; with no undo data recorded
\* (rollback_data empty) it returns an error and the state stays completed.
C13_NoFalseSuccess ==
    /\ \A id \in DOMAIN mig :
           mig[id].status = "rolled_back" => mig[id].rollback_data # NoData
    /\ ret.op = "rollback_migration" /\ ret.status = "success"
           => mig[ret.id].rollback_data # NoData

\* C14: migrations with different ids are independent under any
\* interleaving of the tool's calls: migrate_workspace_to_scope gets an id
\* no other record uses, and a step performed for one id changes no field of
\* the record of another id.
C14_MigrationsIndependent ==
    [][/\ ret'.op = "migrate_workspace_to_scope" => ret'.id \notin DOMAIN mig
       /\ \A b \in DOMAIN mig :
              b # ret'.id => b \in DOMAIN mig' /\ mig'[b] = mig[b]]_vars

\* a later migration ran to completion while an earlier one was suspended
C14_OvertakenWhileSuspended ==
    \E a, b \in DOMAIN mig :
        /\ a < b
        /\ co[a].pc = "sleeping" /\ mig[a].status = "running"
        /\ ~co[b].dry_run /\ mig[b].status = "completed"
        /\ mig[b].items_migrated > 0

\* C15: a status record is immutable once terminal: a failed or rolled-back
\* record never changes again, and the only change ever made to a completed
\* record is rollback_migration setting its state to rolled_back.
C15_TerminalRecordsImmutable ==
    [][\A id \in DOMAIN mig :
          /\ mig[id].status \in {"failed", "rolled_back"} => mig'[id] = mig[id]
          /\ mig[id].status = "completed" =>
                 \/ mig'[id] = mig[id]
                 \/ /\ mig'[id] = [mig[id] EXCEPT !.status = "rolled_back"]
                    /\ ret'.op = "rollback_migration" /\ ret'.id = id]_vars

\* a migration was rolled back after an earlier one had failed, and the
\* tool was asked to roll back again
C15_TerminalRecordsVisited ==
    \E a, b \in DOMAIN mig :
        /\ a < b
        /\ mig[a].status = "failed"
        /\ mig[b].status = "rolled_back" /\ mig[b].items_migrated > 0
        /\ ret.op = "rollback_migration" /\ ret.id = a /\ ret.status = "error"

\* the target scope passes SRN validation: its string is one parse accepts
TargetValid(target_scope) == parse(target_scope.srn_string).ok

\* C21: for every call made, the plan of its workspace and target has
\* validation errors whenever the legacy partition is absent and whenever the
\* target scope fails SRN validation, and validate_migration returns exactly
\* the plan's list
C21_InvalidPlanHasErrors ==
    \A id \in DOMAIN co :
        LET plan == create_migration_plan(fs, co[id].workspace, co[id].target_scope)
        IN  /\ ~fs[co[id].workspace].exists => plan.validation_errors # <<>>
            /\ ~TargetValid(co[id].target_scope) => plan.validation_errors # <<>>
            /\ validate_migration(fs, co[id].workspace, co[id].target_scope)
                   = plan.validation_errors

\* the JSON files of a listing that hold an object, and those that cannot be
\* read or parsed
ObjectFiles(files) == {i \in 1..Len(files) : EndsWithJson(files[i]) /\ files[i].data = "dict"}
BrokenFiles(files) == {i \in 1..Len(files) : EndsWithJson(files[i]) /\ files[i].data = "bad"}

\* the items of the files in a set of positions
RECURSIVE ItemsOf(_, _)
ItemsOf(files, idxs) ==
    IF idxs = {} THEN 0
    ELSE LET i == CHOOSE x \in idxs : TRUE
         IN  files[i].items + ItemsOf(files, idxs \ {i})

\* the call that made migration id was not a dry run, passed validation and
\* has returned
RanForReal(id) ==
    /\ ~co[id].dry_run
    /\ co[id].pc = "returned"
    /\ Len(hist[id]) >= 2 /\ hist[id][2] = "running"

\* C22: a non-dry-run migration skips an item it cannot read or parse and
\* goes on: when it has returned it is completed with every readable item
\* counted and one warning logged per broken file, and it is failed only
\* when the legacy partition could not be listed, before any item
C22_ItemErrorsSkipped ==
    \A id \in DOMAIN co :
        RanForReal(id) =>
            LET files == fs[co[id].workspace].files
            IN  /\ hist[id][3] \in {"completed", "failed"}
                /\ hist[id][3] = "completed" =>
                       /\ mig[id].items_migrated = ItemsOf(files, ObjectFiles(files))
                       /\ CopiesIn(<<"WARNING", "Error processing file", id>>, log)
                              = Cardinality(BrokenFiles(files))
                /\ hist[id][3] = "failed" =>
                       /\ mig[id].error_message = "No such file or directory"
                       /\ mig[id].items_migrated = 0
                       /\ CopiesIn(<<"WARNING", "Error processing file", id>>, log) = 0

\* a migration met a broken file before and after a readable one, was
\* suspended in between, and completed with the readable items counted
C22_CompletedDespiteBrokenFiles ==
    \E id \in DOMAIN co :
        /\ RanForReal(id)
        /\ mig[id].status = "completed"
        /\ mig[id].items_migrated > 0
        /\ \E i, j, k \in 1..Len(fs[co[id].workspace].files) :
               /\ i < j /\ j < k
               /\ {i, k} \subseteq BrokenFiles(fs[co[id].workspace].files)
               /\ j \in ObjectFiles(fs[co[id].workspace].files)

\* the event loop runs a coroutine suspended in `await asyncio.sleep(0.001)`
\* again once its timer has fired: while some call is suspended, the loop
\* does not go on forever without resuming one
Resume ==
    /\ \E migration_id \in MigrationIds : resume_migration(migration_id)
    /\ UNCHANGED <<srnVars, scopeVars, ragVars>>

\* the calls that write: get_migration_status only reads the records and is
\* left out of the behaviours checked for progress
NextCalls ==
    \/ /\ \E workspace \in Workspaces, target_scope \in Targets,
             dry_run \in BOOLEAN, reachable \in BOOLEAN :
               migrate_workspace_to_scope(workspace, target_scope, dry_run, reachable)
       /\ UNCHANGED <<srnVars, scopeVars, ragVars>>
    \/ Resume
    \/ /\ \E migration_id \in MigrationIds : rollback_migration(migration_id)
       /\ UNCHANGED <<srnVars, scopeVars, ragVars>>

FairSpec == Init /\ [][NextCalls]_vars /\ WF_vars(Resume)

\* C23: every call of migrate_workspace_to_scope runs to completion or
\* failure: the record it creates eventually reaches completed or failed
\* and its call returns, whatever other calls are interleaved with it
C23_MigrationTerminates ==
    \A migration_id \in MigrationIds :
        (migration_id \in DOMAIN mig) ~>
            /\ migration_id \in DOMAIN co
            /\ co[migration_id].pc = "returned"
            /\ \E i \in 1..Len(hist[migration_id]) :
                   hist[migration_id][i] \in {"completed", "failed"}

\* a suspended migration completed after a later call had started
C23_CompletedAfterLaterCall ==
    \E a, b \in DOMAIN mig :
        /\ a < b
        /\ ~co[a].dry_run /\ co[a].pc = "returned"
        /\ mig[a].status = "completed"
        /\ mig[a].end_time > mig[b].start_time

(***************************************************************************)
(* Properties of find_matching_scopes (SpecFind)                           *)
(***************************************************************************)
\* the positions of the input list whose scope string matches the pattern
MatchingPositions == {i \in 1..Len(scopes) : fnmatch(scopes[i].srn_string, pattern)}

\* the k-th smallest position of a set of positions
KthPosition(S, k) == CHOOSE i \in S : Cardinality({j \in S : j <= i}) = k

\* C24: find_matching_scopes returns exactly the sub-sequence of the input
\* list whose strings match the glob pattern: one element per matching
\* position, in input order, a scope listed k times and matching occurring k
\* times, no scope that does not match
C24_MatchingSubsequence ==
    scpc = "matched" =>
        /\ Len(matching) = Cardinality(MatchingPositions)
        /\ \A k \in 1..Len(matching) :
               matching[k] = scopes[KthPosition(MatchingPositions, k)]

\* a scope listed twice around one that does not match came back twice
C24_DuplicateKept ==
    /\ scpc = "matched"
    /\ Len(scopes) = 3
    /\ scopes[1] = scopes[3] /\ scopes[2] # scopes[1]
    /\ ~fnmatch(scopes[2].srn_string, pattern)
    /\ \E i \in 1..Len(pattern) : pattern[i] = "?"
    /\ matching = <<scopes[1], scopes[3]>>

(***************************************************************************)
(* Further properties of the scope operations (SpecScope)                  *)
(***************************************************************************)
\* filter_by_scope: the record has every key of the filter with its value
MatchesFilter(record, scope_filter) ==
    \A key \in DOMAIN scope_filter :
        key \in DOMAIN record /\ record[key] = scope_filter[key]

\* a record matches a merged filter: the value of each plain entry, one of
\* the values of each `field__in` entry
MatchesMerged(record, merged_filter) ==
    \A f \in FieldSet :
        /\ f \in DOMAIN merged_filter =>
               f \in DOMAIN record /\ record[f] = merged_filter[f]
        /\ InKey(f) \in DOMAIN merged_filter =>
               /\ f \in DOMAIN record
               /\ \E i \in 1..Len(merged_filter[InKey(f)]) :
                      record[f] = merged_filter[InKey(f)][i]

\* the records stored under the scopes of the pool: each carries the fields
\* of its scope
StoredRecords == {to_filter_dict(x) : x \in ScopePool}

\* C25: the filter merge_scope_filters returns matches any of the provided
\* scopes: a record that matches the filter of at least one input scope
\* matches the merged filter
C25_MergedMatchesAnyScope ==
    scpc = "done" =>
        \A record \in StoredRecords :
            (\E i \in 1..Len(scopes) : MatchesFilter(record, to_filter_dict(scopes[i])))
                => MatchesMerged(record, merged)

\* C26: the two notions of ancestry agree on every pair of scopes made from
\* strings parse accepts: a.is_parent_of(b) holds exactly when a != b and a
\* occurs in resolve_inheritance(b)
C26_ParentIffInInheritance ==
    Related /\ Len(scopes) >= 2 =>
        LET chain == resolve_inheritance(scopes[2])
        IN  isPar = (/\ ~ScopeEq(scopes[1], scopes[2])
                     /\ \E i \in 1..Len(chain) : ScopeEq(chain[i], scopes[1]))

(***************************************************************************)
(* Further properties of the migration tool (Spec)                         *)
(***************************************************************************)
\* C27: in every status record 0 <= items_migrated <= total_items, and the
\* progress_percent get_migration_status reports is between 0 and 100
C27_ProgressWithinTotal ==
    /\ \A id \in DOMAIN mig :
           0 <= mig[id].items_migrated /\ mig[id].items_migrated <= mig[id].total_items
    /\ ret.op = "get_migration_status" /\ ret.found =>
           /\ 0 <= ret.progress_percent[1]
           /\ ret.progress_percent[1] <= 100 * ret.progress_percent[2]

\* C28: every status record that is completed, failed or rolled back has an
\* end_time, and a start_time not later than it
C28_TerminalHasEndTime ==
    \A id \in DOMAIN mig :
        mig[id].status \in {"completed", "failed", "rolled_back"} =>
            /\ mig[id].start_time # NoTime
            /\ mig[id].end_time # NoTime
            /\ mig[id].start_time <= mig[id].end_time

(***************************************************************************)
(* Further properties of create_scope_from_workspace (SpecCreate)          *)
(***************************************************************************)
\* C29: every scope create_scope_from_workspace returns is valid: parse
\* accepts its string and gives back its components
C29_CreatedScopeIsValid ==
    created.ok =>
        /\ parse(created.scope.srn_string).ok
        /\ parse(created.scope.srn_string).comps = created.scope.components

(***************************************************************************)
(* Properties of ScopeAwareLightRAG (SpecRAG)                              *)
(***************************************************************************)
\* C30: a per-call scope override is isolated and restored under any
\* interleaving of overlapping calls: while the underlying operation of a
\* call with explicit scope S runs, the current scope and the scope applied
\* to the storages are S, and once every call has returned the current scope
\* is the one that was set before the first call
C30_OverrideIsolatedAndRestored ==
    /\ \A i \in 1..Len(calls) :
           calls[i].pc = "running" /\ calls[i].scope # NoScope =>
               current_scope = calls[i].scope /\ storage_scope = calls[i].scope
    /\ (\A i \in 1..Len(calls) : calls[i].pc = "returned") =>
           current_scope = scope_before /\ storage_scope = scope_before

====
